---- MODULE Spec2Model ----
(***************************************************************************)
(* LRUCache of cache.py: a dict (self.cache) from keys to ListHead nodes,  *)
(* a circular doubly linked list of ListHead nodes entered at self.queue,  *)
(* and the counters self.size and self.maxsize.  ListHead objects live in  *)
(* a heap addressed by allocation number; a reference is a heap address,   *)
(* None is address 0.  Every public method is one action; an exception is  *)
(* raised at the statement that raises it, with the assignments made       *)
(* before that statement kept.                                             *)
(***************************************************************************)
EXTENDS Integers, Sequences, FiniteSets, TLC

\* Bounds of the model.
NumKeys == 3
NumValues == 1
MaxCap == 2
MaxNeg == 1
MaxNodes == 3

Keys == 1..NumKeys
Values == 1..NumValues
Capacities == 1..MaxCap
AnyCapacities == (0 - MaxNeg)..MaxCap

\* Python's None, as a reference and as a returned value.
None == 0

VARIABLES
    cache,      \* self.cache: dict key -> reference to a ListHead
    queue,      \* self.queue: reference to the head ListHead, or None
    size,       \* self.size
    maxsize,    \* self.maxsize
    heap,       \* the ListHead objects allocated so far: address -> fields
    ret,        \* the last call: method, arguments, exception, returned value
    gen,        \* the generator made by __iter__ or iteritems: its frame
    test,       \* test_lrucache: the loop it is in and the loop's index
    memo        \* cached_func: the line it is at and its locals

vars == <<cache, queue, size, maxsize, heap, ret, gen, test, memo>>

----------------------------------------------------------------------------
(* ListHead *)

\* ListHead.__init__: a fresh node, linked to itself.
ListHead(h, key, value) ==
    Append(h, [prev |-> Len(h) + 1, next |-> Len(h) + 1,
               key |-> key, value |-> value])

\* unlink without its second statement: self.next.prev is left as it was.
unlink_forward_only(h, self) ==
    IF h[self].prev # None /\ h[self].prev # self
    THEN [h EXCEPT ![h[self].prev].next = h[self].next]
    ELSE h

\* ListHead.unlink: the neighbours bypass self; self keeps its own links.
unlink(h, self) ==
    LET h1 == IF h[self].prev # None /\ h[self].prev # self
              THEN [h EXCEPT ![h[self].prev].next = h[self].next]
              ELSE h
    IN  IF h1[self].next # None /\ h1[self].next # self
        THEN [h1 EXCEPT ![h1[self].next].prev = h1[self].prev]
        ELSE h1

\* ListHead.prepend: node goes in front of self.
prepend(h, self, node) ==
    LET h1 == IF h[self].prev # None
              THEN LET g == [h EXCEPT ![h[self].prev].next = node]
                   IN  [g EXCEPT ![node].prev = g[self].prev]
              ELSE h
        h2 == [h1 EXCEPT ![self].prev = node]
    IN  [h2 EXCEPT ![node].next = self]

----------------------------------------------------------------------------
(* LRUCache: helpers *)

\* _update_node with self.queue = node indented under an else: the head is
\* set only for the first node.
update_node_keeps_head(h, q, node) ==
    [heap  |-> IF q # None /\ node # q
               THEN prepend(unlink(h, node), q, node)
               ELSE h,
     queue |-> IF q # None THEN q ELSE node]

\* LRUCache._update_node: the heap and the head after pushing node to the
\* beginning of the queue q.
_update_node(h, q, node) ==
    [heap  |-> IF q # None /\ node # q
               THEN prepend(unlink(h, node), q, node)
               ELSE h,
     queue |-> node]

\* del d[k] of a dict.
DictDel(d, k) == [x \in DOMAIN d \ {k} |-> d[x]]

\* d[k] = n of a dict.
DictSet(d, k, n) == [x \in DOMAIN d \cup {k} |-> IF x = k THEN n ELSE d[x]]

\* _delete_oldest with self.size -= 1 moved before the del: the decrement is
\* kept when the del raises.
delete_oldest_size_first(c, h, q, s) ==
    IF q = None
    THEN [cache |-> c, heap |-> h, size |-> s, exc |-> "none"]
    ELSE LET node == h[q].prev IN
         IF h[node].key \notin DOMAIN c
         THEN [cache |-> c, heap |-> h, size |-> s - 1, exc |-> "KeyError"]
         ELSE [cache |-> DictDel(c, h[node].key),
               heap  |-> unlink(h, node),
               size  |-> s - 1,
               exc   |-> "none"]

\* LRUCache._delete_oldest: del self.cache[node.key] raises KeyError when the
\* tail's key is not in the dict, before the unlink and the decrement.
_delete_oldest(c, h, q, s) ==
    IF q = None
    THEN [cache |-> c, heap |-> h, size |-> s, exc |-> "none"]
    ELSE LET node == h[q].prev IN
         IF h[node].key \notin DOMAIN c
         THEN [cache |-> c, heap |-> h, size |-> s, exc |-> "KeyError"]
         ELSE [cache |-> DictDel(c, h[node].key),
               heap  |-> unlink(h, node),
               size  |-> s - 1,
               exc   |-> "none"]

\* The nodes met from node by following next until the head q comes back,
\* at most fuel of them.
RECURSIVE Walk(_, _, _, _)
Walk(h, q, node, fuel) ==
    IF node = q \/ fuel = 0
    THEN <<>>
    ELSE <<node>> \o Walk(h, q, h[node].next, fuel - 1)

\* The recency list: the nodes reachable from the head, head first.
Order(h, q) ==
    IF q = None THEN <<>> ELSE <<q>> \o Walk(h, q, h[q].next, Len(h))

\* Whether following next from the head comes back to the head: a walk over
\* Len(h) nodes that has not come back never will.
Closed(h, q) == q = None \/ Len(Order(h, q)) <= Len(h)

----------------------------------------------------------------------------
(* LRUCache: the public methods *)

Call(op, key, value, exc, val) ==
    [op |-> op, key |-> key, value |-> value, exc |-> exc, val |-> val]

\* LRUCache.__init__: no check of maxsize.
LRUCache(m) ==
    /\ cache = <<>>
    /\ queue = None
    /\ size = 0
    /\ maxsize = m
    /\ heap = <<>>
    /\ ret = Call("__init__", None, None, "none", None)

\* __getitem__ with the lookup written self.cache.get(key): a miss returns
\* None instead of raising.
getitem_no_raise(key) ==
    IF key \notin DOMAIN cache
    THEN /\ ret' = Call("__getitem__", key, None, "none", None)
         /\ UNCHANGED <<cache, queue, size, maxsize, heap>>
    ELSE LET node == cache[key]
             u == _update_node(heap, queue, node)
         IN  /\ heap' = u.heap
             /\ queue' = u.queue
             /\ ret' = Call("__getitem__", key, None, "none", heap[node].value)
             /\ UNCHANGED <<cache, size, maxsize>>

\* LRUCache.__getitem__
__getitem__(key) ==
    IF key \notin DOMAIN cache
    THEN /\ ret' = Call("__getitem__", key, None, "KeyError", None)
         /\ UNCHANGED <<cache, queue, size, maxsize, heap>>
    ELSE LET node == cache[key]
             u == _update_node(heap, queue, node)
         IN  /\ heap' = u.heap
             /\ queue' = u.queue
             /\ ret' = Call("__getitem__", key, None, "none", heap[node].value)
             /\ UNCHANGED <<cache, size, maxsize>>

\* __setitem__ with the overflow test written >=: a cache of maxsize
\* entries evicts on the put that fills it.
setitem_evicts_early(key, value) ==
    /\ Len(heap) < MaxNodes
    /\ LET h0 == ListHead(heap, key, value)
           node == Len(h0)
           c0 == DictSet(cache, key, node)
           u == _update_node(h0, queue, node)
           s0 == size + 1
           d == IF s0 >= maxsize
                THEN _delete_oldest(c0, u.heap, u.queue, s0)
                ELSE [cache |-> c0, heap |-> u.heap, size |-> s0, exc |-> "none"]
       IN  /\ cache' = d.cache
           /\ heap' = d.heap
           /\ queue' = u.queue
           /\ size' = d.size
           /\ ret' = Call("__setitem__", key, value, d.exc, None)
           /\ UNCHANGED maxsize

\* LRUCache.__setitem__
__setitem__(key, value) ==
    /\ Len(heap) < MaxNodes
    /\ LET h0 == ListHead(heap, key, value)
           node == Len(h0)
           c0 == DictSet(cache, key, node)
           u == _update_node(h0, queue, node)
           s0 == size + 1
           d == IF s0 > maxsize
                THEN _delete_oldest(c0, u.heap, u.queue, s0)
                ELSE [cache |-> c0, heap |-> u.heap, size |-> s0, exc |-> "none"]
       IN  /\ cache' = d.cache
           /\ heap' = d.heap
           /\ queue' = u.queue
           /\ size' = d.size
           /\ ret' = Call("__setitem__", key, value, d.exc, None)
           /\ UNCHANGED maxsize

\* __contains__ written as a scan of the queue for a node with the key.
contains_by_scan(key) ==
    /\ ret' = Call("__contains__", key, None, "none",
                   \E i \in 1..Len(Order(heap, queue)) :
                       heap[Order(heap, queue)[i]].key = key)
    /\ UNCHANGED <<cache, queue, size, maxsize, heap>>

\* __contains__ written as a try of self[key]: a hit promotes the key.
contains_by_get(key) ==
    IF key \notin DOMAIN cache
    THEN /\ ret' = Call("__contains__", key, None, "none", FALSE)
         /\ UNCHANGED <<cache, queue, size, maxsize, heap>>
    ELSE LET u == _update_node(heap, queue, cache[key])
         IN  /\ heap' = u.heap
             /\ queue' = u.queue
             /\ ret' = Call("__contains__", key, None, "none", TRUE)
             /\ UNCHANGED <<cache, size, maxsize>>

\* LRUCache.__contains__
__contains__(key) ==
    /\ ret' = Call("__contains__", key, None, "none", key \in DOMAIN cache)
    /\ UNCHANGED <<cache, queue, size, maxsize, heap>>

\* LRUCache.__len__
__len__ ==
    /\ ret' = Call("__len__", None, None, "none", size)
    /\ UNCHANGED <<cache, queue, size, maxsize, heap>>

\* items with the walk started at self.queue.prev and advanced by node.prev:
\* the pairs from the tail round to the tail.
items_oldest_first ==
    /\ LET o == Order(heap, queue) IN
        ret' = IF Closed(heap, queue)
               THEN Call("items", None, None, "none",
                         [i \in 1..Len(o) |->
                            <<heap[o[Len(o) + 1 - i]].key,
                              heap[o[Len(o) + 1 - i]].value>>])
               ELSE Call("items", None, None, "hang", None)
    /\ UNCHANGED <<cache, queue, size, maxsize, heap>>

\* LRUCache.items: the (key, value) pairs from the head round to the head;
\* the loop does not end when the walk never comes back to the head.
items ==
    /\ LET o == Order(heap, queue) IN
        ret' = IF Closed(heap, queue)
               THEN Call("items", None, None, "none",
                         [i \in 1..Len(o) |-> <<heap[o[i]].key, heap[o[i]].value>>])
               ELSE Call("items", None, None, "hang", None)
    /\ UNCHANGED <<cache, queue, size, maxsize, heap>>

----------------------------------------------------------------------------
(* Generators: __iter__ and iteritems *)

\* No generator has been made.
NoGen == [kind |-> "none", phase |-> "none", node |-> None]

\* What a generator of the kind yields at node n: node.key for __iter__,
\* (node.key, node.value) for iteritems.
YieldOf(h, kind, n) ==
    IF kind = "__iter__" THEN h[n].key ELSE <<h[n].key, h[n].value>>

Yield(kind, n) == YieldOf(heap, kind, n)

\* LRUCache.__iter__: the call makes the generator and runs none of its body.
__iter__ ==
    /\ gen' = [kind |-> "__iter__", phase |-> "created", node |-> None]
    /\ ret' = Call("__iter__", None, None, "none", None)
    /\ UNCHANGED <<cache, queue, size, maxsize, heap>>

\* LRUCache.iteritems: likewise.
iteritems ==
    /\ gen' = [kind |-> "iteritems", phase |-> "created", node |-> None]
    /\ ret' = Call("iteritems", None, None, "none", None)
    /\ UNCHANGED <<cache, queue, size, maxsize, heap>>

\* The generator body with node = node.prev for node = node.next.
gen_next_backwards ==
    /\ gen.phase \in {"created", "suspended"}
    /\ LET node == IF gen.phase = "created" THEN queue ELSE heap[gen.node].prev
       IN  IF node = None
           THEN /\ gen' = [gen EXCEPT !.phase = "done", !.node = None]
                /\ ret' = Call("next", None, None, "StopIteration", None)
           ELSE /\ gen' = [gen EXCEPT !.phase = "suspended", !.node = node]
                /\ ret' = Call("next", None, None, "none", Yield(gen.kind, node))
    /\ UNCHANGED <<cache, queue, size, maxsize, heap>>

\* next() on the generator: the body runs to its next yield.  The first
\* call reads self.queue; a later one resumes after the yield with
\* node = node.next; the loop ends, and StopIteration is raised, only when
\* node is None.
gen_next ==
    /\ gen.phase \in {"created", "suspended"}
    /\ LET node == IF gen.phase = "created" THEN queue ELSE heap[gen.node].next
       IN  IF node = None
           THEN /\ gen' = [gen EXCEPT !.phase = "done", !.node = None]
                /\ ret' = Call("next", None, None, "StopIteration", None)
           ELSE /\ gen' = [gen EXCEPT !.phase = "suspended", !.node = node]
                /\ ret' = Call("next", None, None, "none", Yield(gen.kind, node))
    /\ UNCHANGED <<cache, queue, size, maxsize, heap>>

----------------------------------------------------------------------------
(* Specifications *)

\* test_lrucache and cached_func are not running.
TestOff == [pc |-> "off", i |-> 0, data |-> <<>>, out |-> <<>>, end |-> FALSE]

MemoOff == [pc |-> "off", key |-> None, hit |-> FALSE, calls |-> 0,
            result |-> None]

\* A cache constructed with a capacity of at least 1.
Init ==
    /\ \E m \in Capacities : LRUCache(m)
    /\ gen = NoGen
    /\ test = TestOff
    /\ memo = MemoOff

\* A cache constructed with any capacity the constructor accepts.
InitAnyCap ==
    /\ \E m \in AnyCapacities : LRUCache(m)
    /\ gen = NoGen
    /\ test = TestOff
    /\ memo = MemoOff

Next ==
    \/ \E key \in Keys, value \in Values :
          __setitem__(key, value) /\ UNCHANGED <<gen, test, memo>>
    \/ \E key \in Keys : __getitem__(key) /\ UNCHANGED <<gen, test, memo>>
    \/ \E key \in Keys : __contains__(key) /\ UNCHANGED <<gen, test, memo>>
    \/ __len__ /\ UNCHANGED <<gen, test, memo>>
    \/ items /\ UNCHANGED <<gen, test, memo>>

\* The methods that change the cache, interleaved with the steps of a
\* generator.
NextIter ==
    \/ \E key \in Keys, value \in Values :
          __setitem__(key, value) /\ UNCHANGED <<gen, test, memo>>
    \/ \E key \in Keys : __getitem__(key) /\ UNCHANGED <<gen, test, memo>>
    \/ __iter__ /\ UNCHANGED <<test, memo>>
    \/ iteritems /\ UNCHANGED <<test, memo>>
    \/ gen_next /\ UNCHANGED <<test, memo>>

SpecIter == Init /\ [][NextIter]_vars

Spec == Init /\ [][Next]_vars

SpecAnyCap == InitAnyCap /\ [][Next]_vars

\* The calls of a caller that stores a key only when the cache does not hold
\* it, as cached_func does.
NextFresh ==
    \/ \E key \in Keys, value \in Values :
          /\ key \notin DOMAIN cache
          /\ __setitem__(key, value)
          /\ UNCHANGED <<gen, test, memo>>
    \/ \E key \in Keys : __getitem__(key) /\ UNCHANGED <<gen, test, memo>>
    \/ \E key \in Keys : __contains__(key) /\ UNCHANGED <<gen, test, memo>>

SpecFresh == Init /\ [][NextFresh]_vars

----------------------------------------------------------------------------
(* test_lrucache, lines 146-161: fill, read back, traverse *)

\* test_lrucache before its first put: test_data is built as the puts are
\* made, of distinct keys, at most as many as the capacity.
InitFill ==
    /\ \E m \in Capacities : LRUCache(m)
    /\ gen = NoGen
    /\ test = [TestOff EXCEPT !.pc = "fill"]
    /\ memo = MemoOff

\* for key, value in test_data: cache[key] = value
test_fill(key, value) ==
    /\ test.pc = "fill"
    /\ Len(test.data) < maxsize
    /\ \A j \in 1..Len(test.data) : test.data[j][1] # key
    /\ __setitem__(key, value)
    /\ test' = [test EXCEPT !.data = Append(@, <<key, value>>)]
    /\ UNCHANGED <<gen, memo>>

\* for key, value in test_data: assert cache[key] == value
\* One turn of the loop; the loop is entered after the last put and left
\* after the last key.
test_read ==
    /\ test.pc \in {"fill", "read"}
    /\ test.i < Len(test.data)
    /\ __getitem__(test.data[test.i + 1][1])
    /\ test' = [test EXCEPT !.i = @ + 1,
                            !.pc = IF test.i + 1 = Len(test.data)
                                   THEN "check" ELSE "read"]
    /\ UNCHANGED <<gen, memo>>

\* The traversals are made after the fill, or after the whole read loop.
Filled == test.pc = "check" \/ (test.pc = "fill" /\ test.i = 0)

\* cache.items()
test_items ==
    /\ Filled
    /\ items
    /\ test' = [test EXCEPT !.pc = "check"]
    /\ UNCHANGED <<gen, memo>>

\* zip(cache.iteritems(), ...), zip(cache, ...): the generator is made.
test_iteritems ==
    /\ Filled
    /\ iteritems
    /\ test' = [test EXCEPT !.pc = "check", !.out = <<>>, !.end = FALSE]
    /\ UNCHANGED memo

test_iter ==
    /\ Filled
    /\ __iter__
    /\ test' = [test EXCEPT !.pc = "check", !.out = <<>>, !.end = FALSE]
    /\ UNCHANGED memo

\* One turn of zip(generator, reversed(test_data)): zip takes the next
\* element of the generator, then the next of the reversed list, and ends
\* when either is exhausted.
test_zip ==
    /\ test.pc = "check"
    /\ ~test.end
    /\ gen_next
    /\ test' = IF ret'.exc = "none" /\ Len(test.out) < Len(test.data)
               THEN [test EXCEPT !.out = Append(@, ret'.val)]
               ELSE [test EXCEPT !.end = TRUE]
    /\ UNCHANGED memo

NextFill ==
    \/ \E key \in Keys, value \in Values : test_fill(key, value)
    \/ test_read
    \/ test_items
    \/ test_iteritems
    \/ test_iter
    \/ test_zip

SpecFill == InitFill /\ [][NextFill]_vars

----------------------------------------------------------------------------
(* lru_cache and cached_func *)

\* if maxsize: -- None and 0 are false, every other number is true.
Truthy(m) == m # None

\* The wrapped function: any function of the key; the same key gives the
\* same result.
func(key) == ((key - 1) % NumValues) + 1

\* lru_cache(func, maxsize): an LRUCache when maxsize is true, a dict from
\* key to value otherwise (queue, size and heap are then not there and keep
\* their empty values).
lru_cache(m) ==
    /\ cache = <<>>
    /\ queue = None
    /\ size = 0
    /\ maxsize = m
    /\ heap = <<>>
    /\ ret = Call(IF Truthy(m) THEN "__init__" ELSE "dict", None, None,
                  "none", None)

InitMemo ==
    /\ \E m \in AnyCapacities : lru_cache(m)
    /\ gen = NoGen
    /\ test = TestOff
    /\ memo = [MemoOff EXCEPT !.pc = "idle"]

\* The value the cache holds for a key it holds.
Stored(key) ==
    IF Truthy(maxsize) THEN heap[cache[key]].value ELSE cache[key]

\* key in cache, cache[key] and cache[key] = value on the cache that
\* lru_cache made.
cache_contains(key) ==
    IF Truthy(maxsize)
    THEN __contains__(key)
    ELSE /\ ret' = Call("__contains__", key, None, "none", key \in DOMAIN cache)
         /\ UNCHANGED <<cache, queue, size, maxsize, heap>>

cache_getitem(key) ==
    IF Truthy(maxsize)
    THEN __getitem__(key)
    ELSE /\ ret' = IF key \in DOMAIN cache
                   THEN Call("__getitem__", key, None, "none", cache[key])
                   ELSE Call("__getitem__", key, None, "KeyError", None)
         /\ UNCHANGED <<cache, queue, size, maxsize, heap>>

cache_setitem(key, value) ==
    IF Truthy(maxsize)
    THEN __setitem__(key, value)
    ELSE /\ cache' = DictSet(cache, key, value)
         /\ ret' = Call("__setitem__", key, value, "none", None)
         /\ UNCHANGED <<queue, size, maxsize, heap>>

\* cached_func(key), up to the test: if key in cache
cached_func(key) ==
    /\ memo.pc \in {"idle", "returned", "raised"}
    /\ cache_contains(key)
    /\ memo' = [pc |-> IF ret'.val THEN "hit" ELSE "miss", key |-> key,
                hit |-> ret'.val, calls |-> 0, result |-> None]
    /\ UNCHANGED <<gen, test>>

\* return cache[key], of the hit and after the store.
cached_func_return ==
    /\ memo.pc \in {"hit", "stored"}
    /\ cache_getitem(memo.key)
    /\ memo' = IF ret'.exc = "none"
               THEN [memo EXCEPT !.pc = "returned", !.result = ret'.val]
               ELSE [memo EXCEPT !.pc = "raised"]
    /\ UNCHANGED <<gen, test>>

\* cache[key] = func(*args, **kwargs)
cached_func_store ==
    /\ memo.pc = "miss"
    /\ cache_setitem(memo.key, func(memo.key))
    /\ memo' = [memo EXCEPT !.calls = @ + 1,
                            !.pc = IF ret'.exc = "none" THEN "stored"
                                                        ELSE "raised"]
    /\ UNCHANGED <<gen, test>>

NextMemo ==
    \/ \E key \in Keys : cached_func(key)
    \/ cached_func_return
    \/ cached_func_store

SpecMemo == InitMemo /\ [][NextMemo]_vars

----------------------------------------------------------------------------
(* What the claims speak of *)

\* The keys the index holds.
IndexKeys == DOMAIN cache

\* The nodes of the recency list, head first, and their keys.
ListNodes == Order(heap, queue)

ListKeys == {heap[ListNodes[i]].key : i \in 1..Len(ListNodes)}

\* The set of the nodes of the recency list.
ListSet == {ListNodes[i] : i \in 1..Len(ListNodes)}

\* The place of node n in the recency list (1: the head), 0 when not in it.
Place(n) ==
    IF \E i \in 1..Len(ListNodes) : ListNodes[i] = n
    THEN CHOOSE i \in 1..Len(ListNodes) : ListNodes[i] = n
    ELSE 0

\* The step is a call of put(k, v), get(k).
PutStep == ret'.op = "__setitem__"

GetStep == ret'.op = "__getitem__"

\* The step is a next() on the generator.
GenStep == ret'.op = "next"

\* The nodes after node x up to the tail: what is left of the recency order
\* for a traversal that has yielded x.
Rest(h, q, x) == Walk(h, q, h[x].next, Len(h))

\* The k nodes a traversal standing at node x goes on to.
RECURSIVE Follow(_, _, _)
Follow(h, x, k) ==
    IF k = 0 THEN <<>> ELSE <<h[x].next>> \o Follow(h, h[x].next, k - 1)

\* What a generator of the kind yields along the nodes ns.
Yields(h, kind, ns) == [i \in 1..Len(ns) |-> YieldOf(h, kind, ns[i])]

----------------------------------------------------------------------------
(* Claims *)

\* C1: a put of an absent key that makes the count exceed the capacity
\* removes exactly one key, the key of the tail node, which is the least
\* recently used present key (the node the index holds for it is behind the
\* node of every other present key); every other present key stays, with
\* its value.
C1_OverflowEvictsLeastRecentlyUsed ==
    [][ (PutStep /\ ret'.key \notin IndexKeys /\ size + 1 > maxsize)
        => /\ queue # None
           /\ LET t == heap[heap[queue].prev].key IN
                /\ t \in IndexKeys
                /\ \A k \in IndexKeys \ {t} : Place(cache[k]) < Place(cache[t])
                /\ DOMAIN cache' = (IndexKeys \cup {ret'.key}) \ {t}
                /\ \A k \in IndexKeys \ {t} :
                      heap'[cache'[k]].value = heap[cache[k]].value
      ]_vars

\* C2: after every operation 0 <= len() <= capacity.
C2_LenWithinCapacity == 0 <= size /\ size <= maxsize

\* C3: after put(k, v), get(k) succeeds and returns v: k is in the index and
\* the node the index holds for it carries v.
C3_PutThenGet ==
    ret.op = "__setitem__"
    => /\ ret.key \in IndexKeys
       /\ heap[cache[ret.key]].value = ret.value

\* C4: a put on a present key changes neither len() nor the set of present
\* keys.
C4_PutPresentKeepsCount ==
    [][ (PutStep /\ ret'.key \in IndexKeys)
        => (size' = size /\ DOMAIN cache' = IndexKeys) ]_vars

\* C5: the index and the recency list hold the same keys.
C5_IndexKeysAreListKeys == IndexKeys = ListKeys

\* C6: no two nodes of the recency list carry the same key.
C6_KeyOncePerList ==
    \A i, j \in 1..Len(ListNodes) :
        heap[ListNodes[i]].key = heap[ListNodes[j]].key => i = j

\* C7: len() equals the number of list nodes and the number of index keys.
C7_SizeIsBothCounts ==
    /\ size = Len(ListNodes)
    /\ size = Cardinality(IndexKeys)

\* C8: put, contains, len and items never fail.
C8_OnlyGetFails ==
    ret.op \in {"__setitem__", "__contains__", "__len__", "items"}
    => ret.exc = "none"

\* C9: get(k) on an absent key raises KeyError and changes nothing of the
\* cache.
C9_GetMissRaisesAndKeeps ==
    [][ (GetStep /\ ret'.key \notin IndexKeys)
        => /\ ret'.exc = "KeyError"
           /\ UNCHANGED <<cache, queue, size, maxsize, heap>> ]_vars

\* C9's case: a get has missed on a cache that holds entries.
C9_Witness ==
    /\ ret.op = "__getitem__"
    /\ ret.exc = "KeyError"
    /\ ret.key \notin IndexKeys
    /\ IndexKeys # {}
    /\ size > 0

\* C10: a cache with capacity <= 0 is never constructed: its construction
\* has failed with InvalidCapacity, and nothing was run on it.
C10_NonPositiveCapacityRejected ==
    maxsize <= 0 => (ret.op = "__init__" /\ ret.exc = "InvalidCapacity")

C14_ContainsChangesNothing ==
    [][ (ret'.op = "__contains__")
        => /\ ret'.exc = "none"
           /\ ret'.val = (ret'.key \in IndexKeys)
           /\ UNCHANGED <<cache, queue, size, maxsize, heap>> ]_vars

\* C14's case: contains has found a key that is not at the head of a full
\* cache, where a promotion would change the next eviction.
C14_Witness ==
    /\ ret.op = "__contains__"
    /\ ret.val = TRUE
    /\ size = maxsize
    /\ Len(ListNodes) >= 2
    /\ heap[queue].key # ret.key

\* C17: contains(k) is true if and only if a get(k) run next succeeds.
C17_ContainsIffGetSucceeds ==
    ret.op = "__contains__"
    => (ret.val <=> ENABLED (__getitem__(ret.key) /\ ret'.exc = "none"))

\* C17's case: contains has answered for a key that a list node still
\* carries while the index does not.
C17_Witness ==
    /\ ret.op = "__contains__"
    /\ ret.val = FALSE
    /\ ret.key \in ListKeys

\* C18: the nodes reachable from the head form a circular doubly linked
\* list (n.next.prev is n, n.prev.next is n, next leads back to the head),
\* the node an eviction removes is not reachable afterwards, and a node out
\* of the list never comes back into it.
C18_WellFormed ==
    /\ Closed(heap, queue)
    /\ \A n \in ListSet :
          /\ heap[heap[n].next].prev = n
          /\ heap[heap[n].prev].next = n

C18_EvictedStaysOut ==
    /\ ListSet' \cap (1..Len(heap)) \subseteq ListSet
    /\ (PutStep /\ ret'.exc = "none" /\ size + 1 > maxsize /\ queue # None)
       => heap[queue].prev \notin ListSet'

C18_NoDanglingReference ==
    []C18_WellFormed /\ [][C18_EvictedStaysOut]_vars

\* C18's case: an eviction has unlinked a node from a list that still holds
\* two nodes.
C18_Witness ==
    /\ ret.op = "__setitem__"
    /\ ret.exc = "none"
    /\ Len(heap) > Len(ListNodes)
    /\ Len(ListNodes) >= 2

\* C19: when put is only called with absent keys, the index and the list
\* hold the same keys, each key on one node, len() is the size of both and
\* at most the capacity, and no put raises.
C19_FreshPutsKeepCacheSound ==
    /\ IndexKeys = ListKeys
    /\ \A i, j \in 1..Len(ListNodes) :
          heap[ListNodes[i]].key = heap[ListNodes[j]].key => i = j
    /\ size = Len(ListNodes)
    /\ size = Cardinality(IndexKeys)
    /\ size <= maxsize
    /\ ret.op = "__setitem__" => ret.exc = "none"

\* C19's case: a put of an absent key has evicted from a full cache of two.
C19_Witness ==
    /\ ret.op = "__setitem__"
    /\ Len(heap) > size
    /\ size = maxsize
    /\ size >= 2

\* C20: len() is the number of list nodes and every node the index holds is
\* in the list, also after a put that raised; a put allocates one node and
\* adds it, and no other node, to the list, as its head.
C20_SizeCountsNodes ==
    /\ size = Len(ListNodes)
    /\ \A k \in IndexKeys : cache[k] \in ListSet

C20_PutAddsOneNode ==
    PutStep
    => /\ Len(heap') = Len(heap) + 1
       /\ queue' = Len(heap')
       /\ queue' \in ListSet'
       /\ ListSet' \subseteq ListSet \cup {queue'}

C20_SizeIsListLength ==
    []C20_SizeCountsNodes /\ [][C20_PutAddsOneNode]_vars

\* C20's case: a put has raised and left more nodes than the capacity.
C20_Witness ==
    /\ ret.op = "__setitem__"
    /\ ret.exc = "KeyError"
    /\ size > maxsize

\* C11: a traversal with no mutation between its steps ends when every entry
\* has been yielded: a next() that directly follows the making of the
\* generator on an empty cache, or the next() that yielded the tail entry,
\* raises StopIteration, and no other next() does.
C11_TraversalEnds ==
    [][ (GenStep /\ ret.op \in {"__iter__", "iteritems", "next"})
        => (gen'.phase = "done"
            <=> \/ gen.phase = "created" /\ queue = None
                \/ gen.phase = "suspended" /\ heap[gen.node].next = queue)
      ]_vars

\* The index and the list hold the same keys, each on one node.
OneNodePerKey ==
    /\ IndexKeys = ListKeys
    /\ Len(ListNodes) = Cardinality(IndexKeys)

Reversed(kind) ==
    LET n == Len(test.data) IN
    [i \in 1..n |-> IF kind = "__iter__" THEN test.data[n + 1 - i][1]
                                          ELSE test.data[n + 1 - i]]

\* C12: after n <= capacity distinct keys were put into an empty cache in
\* the order k1..kn, read back in that order or not, items() returns the
\* pairs (kn,vn), ..., (k1,v1), and the first n elements that __iter__ and
\* iteritems yield are those keys and those pairs in that order.
C12_MostRecentFirst ==
    /\ (test.pc = "check" /\ ret.op = "items")
        => (ret.exc = "none" /\ ret.val = Reversed("iteritems"))
    /\ (test.pc = "check" /\ test.end)
        => test.out = Reversed(gen.kind)
    /\ (test.pc = "check" /\ ret.op = "next" /\ ~test.end)
        => test.out = SubSeq(Reversed(gen.kind), 1, Len(test.out))

\* C12's case: two keys were put, both were read back in that order, and a
\* traversal of the keys has been zipped to its end.
C12_Witness ==
    /\ test.pc = "check"
    /\ test.i = Len(test.data)
    /\ Len(test.data) >= 2
    /\ gen.kind = "__iter__"
    /\ test.end
    /\ Len(test.out) = Len(test.data)

\* C16: a call of the memoized function raises nothing; when the key is in
\* the cache the wrapped function is not called and the call returns the
\* stored value; when it is not, the wrapped function is called once, its
\* result is stored under the key, and the call returns that result.
C16_HitReturnsStoredMissComputesOnce ==
    [][ /\ memo'.pc # "raised"
        /\ (memo'.pc = "returned" /\ memo.pc = "hit")
            => /\ memo'.calls = 0
               /\ memo'.result = Stored(memo.key)
        /\ (memo'.pc = "returned" /\ memo.pc = "stored")
            => /\ memo'.calls = 1
               /\ memo'.result = func(memo.key)
               /\ memo.key \in DOMAIN cache
               /\ Stored(memo.key) = func(memo.key) ]_vars

====
